---------------------------- MODULE Spec2Model ----------------------------
(***************************************************************************)
(* The capture pipeline of d8tahaven: the two route handlers of            *)
(* src/capture/api.py (capture_content, capture_file), the embedding       *)
(* generator of src/shared/embeddings.py and the two tables of             *)
(* src/storage/models.py, as a state machine.                              *)
(*                                                                         *)
(* A request is a handler invocation.  The handlers are coroutines that    *)
(* never await between the hash lookup and the response, so the requests   *)
(* of one server process run one after another; requests of different      *)
(* server processes (workers) interleave at every store and provider       *)
(* operation.  The store is the shared PostgreSQL database, each session   *)
(* reading committed rows only.                                            *)
(*                                                                         *)
(* Text is a sequence of one-character strings.                            *)
(***************************************************************************)
EXTENDS Integers, Sequences, FiniteSets, TLC

\* ------------------------------------------------------------------ bounds

\* number of capture requests of a behaviour
NumRequests == 2

\* number of threads of one server process that call _get_client
NumThreads == 3

\* largest retry ceiling passed to a direct call of generate_embedding
MaxRetriesArg == 4

\* ------------------------------------------------------- program constants

EMBEDDING_MODEL == "text-embedding-3-small"
EMBEDDING_DIMENSIONS == 1536
MAX_RETRIES == 3
INITIAL_RETRY_DELAY == 1
max_chars == 32000
MAX_FILE_SIZE == 10 * 1024 * 1024
SUPPORTED_EXTENSIONS ==
    { <<".", "p", "d", "f">>, <<".", "d", "o", "c", "x">>, <<".", "t", "x", "t">> }

HTTP_201_CREATED == 201
HTTP_413_REQUEST_ENTITY_TOO_LARGE == 413
HTTP_415_UNSUPPORTED_MEDIA_TYPE == 415
HTTP_422_UNPROCESSABLE_ENTITY == 422
HTTP_500_INTERNAL_SERVER_ERROR == 500

\* ------------------------------------------------------------ text helpers

Whitespace == { " ", "\n", "\t" }

RECURSIVE lstrip(_)
lstrip(s) ==
    IF s = <<>> THEN <<>>
    ELSE IF Head(s) \in Whitespace THEN lstrip(Tail(s)) ELSE s

RECURSIVE rstrip(_)
rstrip(s) ==
    IF s = <<>> THEN <<>>
    ELSE IF s[Len(s)] \in Whitespace THEN rstrip(SubSeq(s, 1, Len(s) - 1)) ELSE s

\* str.strip()
strip(s) == rstrip(lstrip(s))

\* str.lower() on the letters the file names use
LowerChar(c) ==
    CASE c = "T" -> "t"
      [] c = "X" -> "x"
      [] c = "P" -> "p"
      [] c = "D" -> "d"
      [] c = "F" -> "f"
      [] OTHER -> c

lower(s) == [i \in 1..Len(s) |-> LowerChar(s[i])]

\* the position of the last "." of s, 0 when there is none
RECURSIVE LastDot(_)
LastDot(s) ==
    IF s = <<>> THEN 0
    ELSE IF s[Len(s)] = "." THEN Len(s) ELSE LastDot(SubSeq(s, 1, Len(s) - 1))

\* the suffix compared as the client wrote it, without .lower()
ExtensionCaseSensitive(filename) ==
    IF LastDot(filename) = 0 THEN <<>>
    ELSE <<".">> \o SubSeq(filename, LastDot(filename) + 1, Len(filename))

\* "." + filename.rsplit(".", 1)[-1].lower() if "." in filename else ""
Extension(filename) ==
    IF LastDot(filename) = 0 THEN <<>>
    ELSE <<".">> \o lower(SubSeq(filename, LastDot(filename) + 1, Len(filename)))

\* hashlib.sha256(text.encode('utf-8')).hexdigest(): a digest of the characters
\* in order, collision-free on the texts of the model
CharCode(c) ==
    CASE c = "a" -> 1
      [] c = "b" -> 2
      [] c = " " -> 3
      [] c = "\n" -> 4
      [] c = "\t" -> 5
      [] OTHER -> 6

RECURSIVE sha256(_)
sha256(s) ==
    IF s = <<>> THEN 0
    ELSE 7 * sha256(SubSeq(s, 1, Len(s) - 1)) + CharCode(s[Len(s)])

\* text[:max_chars] of generate_embedding
Truncate(text) ==
    IF Len(text) > max_chars THEN SubSeq(text, 1, max_chars) ELSE text


\* ------------------------------------------------------- embedding provider

NoVector == [dims |-> 0, input |-> <<>>, model |-> "none"]
NoError == [type |-> "none", reason |-> "none", attempts |-> 0, cause |-> "none"]
NoStatus == 0

\* lengths of the vectors the provider may return
VectorLens == { EMBEDDING_DIMENSIONS, EMBEDDING_DIMENSIONS - 1, 0 }

\* status codes of a provider error; NoStatus: the error carries none
StatusCodes == { NoStatus, 399, 400, 499, 500 }

\* what one call of client.embeddings.create does: it returns a vector of some
\* length, or raises one of the provider's error classes or anything else
ProviderResponses ==
    { [kind |-> "ok", dims |-> n, status_code |-> NoStatus] : n \in VectorLens }
    \cup { [kind |-> k, dims |-> 0, status_code |-> NoStatus] :
             k \in { "RateLimitError", "APIConnectionError", "Exception" } }
    \cup { [kind |-> "APIError", dims |-> 0, status_code |-> c] : c \in StatusCodes }

EmbeddingError(reason, attempts, cause) ==
    [type |-> "EmbeddingError", reason |-> reason, attempts |-> attempts, cause |-> cause]

\* the frame of one call of generate_embedding
\*   attempt      the loop variable of  for attempt in range(max_retries)
\*   retry_delay  the next backoff wait
\*   calls        provider calls made so far
\*   sleeps       the waits of time.sleep, in order
\*   status       "running" | "returned" | "raised"
Raise(g, error) == [g EXCEPT !.status = "raised", !.error = error]

\* the head of the for loop: the body runs while attempt < max_retries, and the
\* statement after the loop raises
ForHead(g) ==
    IF g.attempt < g.max_retries THEN g
    ELSE Raise(g, EmbeddingError("unknown", 0, "none"))

\* generate_embedding up to its first provider call
BeginEmbedding(text, model, max_retries) ==
    ForHead([text |-> Truncate(text), model |-> model, max_retries |-> max_retries,
             attempt |-> 0, retry_delay |-> INITIAL_RETRY_DELAY, calls |-> 0,
             sleeps |-> <<>>, status |-> "running",
             result |-> NoVector, error |-> NoError])

\* the last attempt taken for one that may be retried
RetryOrRaiseOffByOne(g, reason, cause) ==
    IF g.attempt < g.max_retries
    THEN ForHead([g EXCEPT !.sleeps = Append(@, g.retry_delay),
                           !.retry_delay = @ * 2,
                           !.attempt = @ + 1])
    ELSE Raise(g, EmbeddingError(reason, g.max_retries, cause))

\* the retry branch without  retry_delay *= 2
RetryOrRaiseConstantDelay(g, reason, cause) ==
    IF g.attempt < g.max_retries - 1
    THEN ForHead([g EXCEPT !.sleeps = Append(@, g.retry_delay),
                           !.attempt = @ + 1])
    ELSE Raise(g, EmbeddingError(reason, g.max_retries, cause))

\* the retry branch without  time.sleep(retry_delay)
RetryOrRaiseNoWait(g, reason, cause) ==
    IF g.attempt < g.max_retries - 1
    THEN ForHead([g EXCEPT !.retry_delay = @ * 2,
                           !.attempt = @ + 1])
    ELSE Raise(g, EmbeddingError(reason, g.max_retries, cause))

\* the branch shared by the three retryable handlers: sleep, double the delay and
\* go on with the next attempt while attempts remain, raise otherwise
RetryOrRaise(g, reason, cause) ==
    IF g.attempt < g.max_retries - 1
    THEN ForHead([g EXCEPT !.sleeps = Append(@, g.retry_delay),
                           !.retry_delay = @ * 2,
                           !.attempt = @ + 1])
    ELSE Raise(g, EmbeddingError(reason, g.max_retries, cause))

\* the client errors taken to start above 400
IsClientErrorAbove400(resp) ==
    resp.status_code # NoStatus /\ 400 < resp.status_code /\ resp.status_code < 500

\* if hasattr(e, 'status_code') and 400 <= e.status_code < 500
IsClientError(resp) ==
    resp.status_code # NoStatus /\ 400 <= resp.status_code /\ resp.status_code < 500

\* no dimension check
DimensionsUnchecked(dims) == TRUE

\* the dimension check of a returned vector
DimensionsOk(dims) == dims = EMBEDDING_DIMENSIONS

\* one iteration of the loop body, the provider answering resp
Attempt(g, resp) ==
    LET c == [g EXCEPT !.calls = @ + 1] IN
    CASE resp.kind = "ok" ->
           IF DimensionsOk(resp.dims)
           THEN [c EXCEPT !.status = "returned",
                          !.result = [dims |-> resp.dims, input |-> g.text,
                                      model |-> g.model]]
           \* the EmbeddingError raised in the try block is caught by  except Exception
           ELSE Raise(c, EmbeddingError("unexpected", 0, "dimensions"))
      [] resp.kind = "RateLimitError" ->
           RetryOrRaise(c, "rate_limit", "RateLimitError")
      [] resp.kind = "APIConnectionError" ->
           RetryOrRaise(c, "connection", "APIConnectionError")
      [] resp.kind = "APIError" ->
           IF IsClientError(resp)
           THEN Raise(c, EmbeddingError("api_error", 0, "APIError"))
           ELSE RetryOrRaise(c, "api_error", "APIError")
      [] OTHER ->
           Raise(c, EmbeddingError("unexpected", 0, "Exception"))

\* a model name written out where the vector is stored
get_model_versionHardCoded == "text-embedding-ada-002"

get_model_version == EMBEDDING_MODEL

\* ------------------------------------------------------------------ inputs

Reqs == 1..NumRequests

\* every request may be served by a server process of its own
Workers == 1..NumRequests

NoRequest ==
    [route |-> "none", worker |-> 0, content |-> <<>>, source |-> "", metadata |-> "null",
     filename |-> <<>>, size |-> 0, content_type |-> "", parse_ok |-> FALSE,
     parsed |-> <<>>]

TextBody(content, source, metadata) ==
    [NoRequest EXCEPT !.route = "text", !.content = content, !.source = source,
                      !.metadata = metadata]

Upload(filename, size, content_type, parse_ok, parsed) ==
    [NoRequest EXCEPT !.route = "file", !.filename = filename, !.size = size,
                      !.content_type = content_type, !.parse_ok = parse_ok,
                      !.parsed = parsed]

\* the bodies of POST /v1/capture
TextBodies ==
    { TextBody(<<"a">>, "manual_entry", "null"),
      TextBody(<<" ", "a", "\n">>, "browser_extension", "tags"),
      TextBody(<<" ", "\t">>, "manual_entry", "null"),
      TextBody(<<>>, "manual_entry", "empty") }

\* the uploads of POST /v1/capture/file: the name, the number of bytes and what
\* the parser of the file's kind makes of the bytes
Uploads ==
    { Upload(<<"n", ".", "T", "X", "T">>, 3, "text/plain", TRUE, <<"a", "\n">>),
      Upload(<<"n", ".", "p", "d", "f">>, MAX_FILE_SIZE, "application/pdf", TRUE, <<"b">>),
      Upload(<<"n", ".", "t", "x", "t">>, 2, "text/plain", TRUE, <<" ", "\n">>),
      Upload(<<"n", ".", "d", "o", "c", "x">>, 9, "application/msword", FALSE, <<>>),
      Upload(<<"n", ".", "t", "x", "t">>, MAX_FILE_SIZE + 1, "text/plain", TRUE, <<"a">>),
      Upload(<<"e", ".", "e", "x", "e">>, 9, "application/octet-stream", TRUE, <<"a">>),
      Upload(<<"t", "x", "t">>, 9, "text/plain", TRUE, <<"a">>) }

\* ------------------------------------------------------------------- state

VARIABLES
    pc,             \* where each request's handler stands
    req,            \* the request each handler was called with
    local,          \* the handler's local variables
    gen,            \* the frame of the handler's call of generate_embedding, while
                    \* the call runs
    session,        \* the rows each request's database session has flushed
    response,       \* what each request returned or raised
    content_items,  \* the committed rows of table content_items
    embeddings,     \* the committed rows of table embeddings
    clock,          \* the server time
    openai_client,  \* _openai_client of each server process
    api_key,        \* whether OPENAI_API_KEY is set
    call,           \* the frame of a direct call of generate_embedding
    provider_log,   \* what the provider answered to each call of the direct call
    process,        \* one server process whose threads call _get_client
    txt             \* the frame of a call of extract_text_from_txt

vars == << pc, req, local, gen, session, response, content_items, embeddings,
           clock, openai_client, api_key, call, provider_log, process, txt >>

\* the threads of the process
Threads == 1..NumThreads

\* a process whose  _openai_client  is None (0) and whose threads have not called
\* _get_client:  objects  counts the OpenAI objects constructed, each thread holds
\* the object it constructed and the client _get_client returned to it
NoProcess ==
    [openai_client |-> 0, objects |-> 0,
     thread |-> [t \in Threads |-> [pc |-> "idle", new |-> 0, client |-> 0]]]

\* no call of extract_text_from_txt
NoTxt ==
    [detected_encoding |-> "None", confidence |-> 0, decodable |-> {},
     encodings_to_try |-> <<>>, tried |-> 0, status |-> "none", result |-> "none"]

NoItem ==
    [id |-> 0, content |-> <<>>, content_hash |-> 0, source |-> "", meta |-> "empty",
     created_at |-> 0]

NoLocal ==
    [content |-> <<>>, content_hash |-> 0, ext |-> <<>>, bytes_read |-> FALSE,
     extract_called |-> FALSE, existing_item |-> NoItem, provider_called |-> FALSE,
     embedding_vector |-> NoVector]

NoCall == BeginEmbedding(<<>>, "none", 0)

NoResponse ==
    [status_code |-> 0, status |-> "", capture_id |-> 0, created_at |-> 0,
     detail |-> "", cause |-> ""]

\* ------------------------------------------------------------------- store

\* a lookup on a column that never equals the hash
query_firstMisses(items, h) == NoItem

\* db.query(ContentItem).filter_by(content_hash=h).first()
query_first(items, h) ==
    IF \E i \in items : i.content_hash = h
    THEN CHOOSE i \in items : i.content_hash = h
    ELSE NoItem

\* the column declared without unique=True
UniqueViolationDropped(items, row) == FALSE

\* the UNIQUE constraint on content_items.content_hash
UniqueViolation(items, row) == \E i \in items : i.content_hash = row.content_hash

\* trim(content) of PostgreSQL removes spaces
RECURSIVE pg_trim(_)
pg_trim(s) ==
    IF s = <<>> THEN <<>>
    ELSE IF Head(s) = " " THEN pg_trim(Tail(s))
    ELSE IF s[Len(s)] = " " THEN pg_trim(SubSeq(s, 1, Len(s) - 1))
    ELSE s

\* CHECK (length(trim(content)) > 0)
content_not_empty(row) == Len(pg_trim(row.content)) > 0

\* the column type Vector(1536), the foreign key of embeddings and the UNIQUE
\* constraint one_embedding_per_item
EmbeddingInsertable(items, embs, e) ==
    /\ e.embedding_vector.dims = EMBEDDING_DIMENSIONS
    /\ \E i \in items : i.id = e.content_item_id
    /\ ~ \E x \in embs : x.content_item_id = e.content_item_id

\* a commit that writes the table anew from the rows of the session
CommitItemsOverwrites(items, item) == { item }

\* the tables after COMMIT of a session that inserted item and emb
CommitItems(items, item) == items \cup { item }

\* the embedding never added to the session
CommitEmbeddingsLost(embs, emb) == embs

CommitEmbeddings(embs, emb) == embs \cup { emb }

\* the handler without db.rollback(): the session keeps its uncommitted row
rollbackMissing(sess) == sess

\* db.rollback(): the session's uncommitted rows are gone
rollback(sess) == NoItem

\* ---------------------------------------------------------------- handlers

\* the handler of q is between its hash lookup and its response: no other
\* handler of the same server process runs meanwhile
Busy(q) == pc[q] \in { "lookup", "client", "embed", "flush", "commit", "refresh" }

LoopFree(w, r) == \A q \in Reqs \ { r } : req[q].worker = w => ~ Busy(q)

\* requests are numbered in the order they arrive, server processes in the order
\* they first serve a request
CanStart(r) == pc[r] = "idle" /\ (IF r = 1 THEN TRUE ELSE pc[r - 1] # "idle")

UsedWorkers == { req[q].worker : q \in { x \in Reqs : pc[x] # "idle" } }

WorkerChoices == { w \in Workers : w <= Cardinality(UsedWorkers) + 1 }

\* the validator without  not v.strip()
ContentValidNonEmptyOnly(v) == v # <<>>

\* the validator returning the text as it came
content_must_not_be_emptyUnstripped(v) == v

\* CaptureRequest.content_must_not_be_empty:  return v.strip()
content_must_not_be_empty(v) == strip(v)

\* CaptureRequest.content_must_not_be_empty
ContentValid(v) == v # <<>> /\ strip(v) # <<>>

\* request.metadata or {}
MetaOf(metadata) == IF metadata \in { "null", "empty" } THEN "empty" ELSE metadata

\* a status that tells a new record from a duplicate
ResponseStatusDistinct(existing_item) ==
    IF existing_item = NoItem THEN "created" ELSE "already exists"

\* the status field of both handlers' responses
ResponseStatus(existing_item) == "completed"

Success(capture_id, created_at, existing_item) ==
    [NoResponse EXCEPT !.status_code = HTTP_201_CREATED,
                       !.status = ResponseStatus(existing_item),
                       !.capture_id = capture_id, !.created_at = created_at]

HTTPException(status_code, detail, cause) ==
    [NoResponse EXCEPT !.status_code = status_code, !.detail = detail, !.cause = cause]

\* the detail of  except Exception  of the two handlers
SaveDetail(r) ==
    IF req[r].route = "text" THEN "Failed to save capture" ELSE "Failed to save file capture"

\* the duplicate answered with the time of the request
DuplicateResponseNow(existing_item) == Success(existing_item.id, clock, existing_item)

\* the response of a handler whose lookup found existing_item
DuplicateResponse(existing_item) ==
    Success(existing_item.id, existing_item.created_at, existing_item)

\* the row  ContentItem(content=..., content_hash=..., source=..., meta=...)
NewContentItem(r) ==
    [id |-> r, content |-> local[r].content, content_hash |-> local[r].content_hash,
     source |-> IF req[r].route = "text" THEN req[r].source ELSE "file_upload",
     meta |-> IF req[r].route = "text" THEN MetaOf(req[r].metadata) ELSE "file_info",
     created_at |-> clock + 1]

\* the row  Embedding(content_item_id=..., embedding_vector=..., model_version=...)
NewEmbedding(r) ==
    [id |-> r, content_item_id |-> session[r].id,
     embedding_vector |-> local[r].embedding_vector,
     model_version |-> get_model_version, created_at |-> clock]

\* the limit taken for the first size that is refused
TooLargeInclusive(file_size) == file_size >= MAX_FILE_SIZE

\* the handler without the size check
TooLargeUnchecked(file_size) == FALSE

\* if file_size > MAX_FILE_SIZE
TooLarge(file_size) == file_size > MAX_FILE_SIZE

\* the test without  not extracted_text.strip()
ExtractedEmptyUntrimmed(text) == text = <<>>

\* if not extracted_text or not extracted_text.strip()
ExtractedEmpty(text) == text = <<>> \/ strip(text) = <<>>

\* extract_text: the parser of the file's kind, ValueError for any other kind
extract_text(filename, up) ==
    IF Extension(filename) \in SUPPORTED_EXTENSIONS
    THEN [kind |-> IF up.parse_ok THEN "text" ELSE "ExtractionError", text |-> up.parsed]
    ELSE [kind |-> "ValueError", text |-> <<>>]

\* str(e) of a failed statement names the statement: a failed refresh is told
\* from a failed lookup, INSERT or COMMIT
OperationalError(statement) ==
    IF statement = "refresh" THEN "OperationalError in refresh" ELSE "OperationalError"

\* a handler ends with an exception: rollback, then the error response
Fail(r, status_code, detail, cause) ==
    /\ pc' = [pc EXCEPT ![r] = "done"]
    /\ response' = [response EXCEPT ![r] = HTTPException(status_code, detail, cause)]
    /\ session' = [session EXCEPT ![r] = rollback(session[r])]

\* POST /v1/capture up to the hash lookup
StartText(r) ==
    /\ CanStart(r)
    /\ \E body \in TextBodies, w \in WorkerChoices :
         /\ LoopFree(w, r)
         /\ req' = [req EXCEPT ![r] = [body EXCEPT !.worker = w]]
         /\ IF ContentValid(body.content)
            THEN /\ local' = [local EXCEPT ![r] =
                        [NoLocal EXCEPT !.content = content_must_not_be_empty(body.content),
                                        !.content_hash =
                                            sha256(content_must_not_be_empty(body.content))]]
                 /\ pc' = [pc EXCEPT ![r] = "lookup"]
                 /\ UNCHANGED response
            ELSE /\ pc' = [pc EXCEPT ![r] = "done"]
                 /\ response' = [response EXCEPT ![r] =
                        HTTPException(HTTP_422_UNPROCESSABLE_ENTITY,
                                      "Content cannot be empty or whitespace only",
                                      "ValueError")]
                 /\ UNCHANGED local
    /\ clock' = clock + 1
    /\ UNCHANGED << gen, session, content_items, embeddings, openai_client, api_key, call, provider_log, process, txt >>

\* POST /v1/capture/file up to  await file.read()
StartFile(r) ==
    /\ CanStart(r)
    /\ \E up \in Uploads, w \in WorkerChoices :
         /\ LoopFree(w, r)
         /\ req' = [req EXCEPT ![r] = [up EXCEPT !.worker = w]]
         /\ local' = [local EXCEPT ![r] = [NoLocal EXCEPT !.ext = Extension(up.filename)]]
         /\ IF Extension(up.filename) \in SUPPORTED_EXTENSIONS
            THEN /\ pc' = [pc EXCEPT ![r] = "read"]
                 /\ UNCHANGED response
            ELSE /\ pc' = [pc EXCEPT ![r] = "done"]
                 /\ response' = [response EXCEPT ![r] =
                        HTTPException(HTTP_415_UNSUPPORTED_MEDIA_TYPE,
                                      "Unsupported file type", "")]
    /\ clock' = clock + 1
    /\ UNCHANGED << gen, session, content_items, embeddings, openai_client, api_key, call, provider_log, process, txt >>

\* capture_file from the read of the payload to the hash lookup
ReadFile(r) ==
    /\ pc[r] = "read"
    /\ LoopFree(req[r].worker, r)
    /\ LET up == req[r]
           read == [local[r] EXCEPT !.bytes_read = TRUE]
           called == [read EXCEPT !.extract_called = TRUE]
           extracted == extract_text(up.filename, up)
       IN  IF TooLarge(up.size)
           THEN /\ local' = [local EXCEPT ![r] = read]
                /\ pc' = [pc EXCEPT ![r] = "done"]
                /\ response' = [response EXCEPT ![r] =
                       HTTPException(HTTP_413_REQUEST_ENTITY_TOO_LARGE, "File too large", "")]
           ELSE IF extracted.kind # "text"
           THEN /\ local' = [local EXCEPT ![r] = called]
                /\ pc' = [pc EXCEPT ![r] = "done"]
                /\ response' = [response EXCEPT ![r] =
                       IF extracted.kind = "ExtractionError"
                       THEN HTTPException(HTTP_422_UNPROCESSABLE_ENTITY,
                                          "Failed to extract text", "ExtractionError")
                       ELSE HTTPException(HTTP_415_UNSUPPORTED_MEDIA_TYPE,
                                          "Unsupported file type", "ValueError")]
           ELSE IF ExtractedEmpty(extracted.text)
           THEN /\ local' = [local EXCEPT ![r] = called]
                /\ pc' = [pc EXCEPT ![r] = "done"]
                /\ response' = [response EXCEPT ![r] =
                       HTTPException(HTTP_422_UNPROCESSABLE_ENTITY,
                                     "Extracted text is empty", "")]
           ELSE /\ local' = [local EXCEPT ![r] =
                       [called EXCEPT !.content = strip(extracted.text),
                                      !.content_hash = sha256(strip(extracted.text))]]
                /\ pc' = [pc EXCEPT ![r] = "lookup"]
                /\ UNCHANGED response
    /\ UNCHANGED << req, gen, session, content_items, embeddings, clock, openai_client,
                    api_key, call, provider_log, process, txt >>

\* the lookup hit that does not return
LookupHitContinues(r, existing_item) ==
    /\ local' = [local EXCEPT ![r].existing_item = existing_item]
    /\ pc' = [pc EXCEPT ![r] = "client"]
    /\ UNCHANGED << response, session >>

\* if existing_item:  return the response naming it
LookupHit(r, existing_item) ==
    /\ local' = [local EXCEPT ![r].existing_item = existing_item]
    /\ pc' = [pc EXCEPT ![r] = "done"]
    /\ response' = [response EXCEPT ![r] = DuplicateResponse(existing_item)]
    /\ UNCHANGED session

\* the hash lookup and, on a hit, the response
Lookup(r) ==
    /\ pc[r] = "lookup"
    /\ \E fault \in BOOLEAN :
         LET existing_item == query_first(content_items, local[r].content_hash) IN
         IF fault
         THEN /\ Fail(r, HTTP_500_INTERNAL_SERVER_ERROR, SaveDetail(r),
                      OperationalError("lookup"))
              /\ UNCHANGED local
         ELSE IF existing_item # NoItem
         THEN LookupHit(r, existing_item)
         ELSE /\ pc' = [pc EXCEPT ![r] = "client"]
              /\ UNCHANGED << local, response, session >>
    /\ UNCHANGED << req, gen, content_items, embeddings, clock, openai_client, api_key, call, provider_log, process, txt >>

\* the content item inserted and committed before the embedding is generated
EmbeddingFailedAfterInsert(r, g) ==
    /\ gen' = [gen EXCEPT ![r] = NoCall]
    /\ Fail(r, HTTP_500_INTERNAL_SERVER_ERROR, "Failed to generate embedding", g.error.type)
    /\ content_items' = content_items \cup { NewContentItem(r) }
    /\ UNCHANGED embeddings

\* except EmbeddingError  of the handler, the call having raised in frame g
EmbeddingFailed(r, g) ==
    /\ gen' = [gen EXCEPT ![r] = NoCall]
    /\ Fail(r, HTTP_500_INTERNAL_SERVER_ERROR, "Failed to generate embedding", g.error.type)
    /\ UNCHANGED << content_items, embeddings >>

\* _get_client without the test of the key
CredentialsNotTested(w) == FALSE

\* _get_client:  _openai_client is None  and  not OPENAI_API_KEY
CredentialsMissing(w) == openai_client[w] = "None" /\ ~ api_key

\* generate_embedding from its entry to the loop: _get_client
GetClient(r) ==
    /\ pc[r] = "client"
    /\ LET w == req[r].worker
           g == BeginEmbedding(local[r].content, EMBEDDING_MODEL, MAX_RETRIES)
       IN  IF CredentialsMissing(w)
           THEN \* ValueError is no EmbeddingError:  except Exception  of the handler
                /\ Fail(r, HTTP_500_INTERNAL_SERVER_ERROR, SaveDetail(r), "ValueError")
                /\ UNCHANGED << gen, openai_client, content_items, embeddings >>
           ELSE /\ openai_client' = [openai_client EXCEPT ![w] = "OpenAI"]
                /\ IF g.status = "raised"
                   THEN EmbeddingFailed(r, g)
                   ELSE /\ gen' = [gen EXCEPT ![r] = g]
                        /\ pc' = [pc EXCEPT ![r] = "embed"]
                        /\ UNCHANGED << response, session, content_items, embeddings >>
    /\ UNCHANGED << req, local, clock, api_key, call, provider_log, process, txt >>

\* one provider call of the handler's generate_embedding, with what follows it
EmbedAttempt(r) ==
    /\ pc[r] = "embed"
    /\ \E resp \in ProviderResponses :
         LET g == Attempt(gen[r], resp) IN
         CASE g.status = "returned" ->
                \* embedding_vector = generate_embedding(...)
                /\ gen' = [gen EXCEPT ![r] = NoCall]
                /\ local' = [local EXCEPT ![r].provider_called = TRUE,
                                          ![r].embedding_vector = g.result]
                /\ pc' = [pc EXCEPT ![r] = "flush"]
                /\ UNCHANGED << response, session, content_items, embeddings >>
           [] g.status = "raised" ->
                /\ local' = [local EXCEPT ![r].provider_called = TRUE]
                /\ EmbeddingFailed(r, g)
           [] OTHER ->
                /\ gen' = [gen EXCEPT ![r] = g]
                /\ local' = [local EXCEPT ![r].provider_called = TRUE]
                /\ UNCHANGED << pc, response, session, content_items, embeddings >>
    /\ UNCHANGED << req, clock, openai_client, api_key, call, provider_log, process, txt >>

\* db.add(content_item); db.flush(): the INSERT waits for the end of a session that
\* has inserted the same hash and not yet committed
Flush(r) ==
    /\ pc[r] = "flush"
    /\ ~ \E q \in Reqs \ { r } :
           session[q] # NoItem /\ session[q].content_hash = local[r].content_hash
    /\ \E fault \in BOOLEAN :
         LET row == NewContentItem(r) IN
         IF fault
         THEN /\ Fail(r, HTTP_500_INTERNAL_SERVER_ERROR, SaveDetail(r),
                      OperationalError("flush"))
              /\ UNCHANGED clock
         ELSE IF UniqueViolation(content_items, row) \/ ~ content_not_empty(row)
         THEN /\ Fail(r, HTTP_500_INTERNAL_SERVER_ERROR, SaveDetail(r), "IntegrityError")
              /\ UNCHANGED clock
         ELSE /\ session' = [session EXCEPT ![r] = row]
              /\ pc' = [pc EXCEPT ![r] = "commit"]
              /\ clock' = clock + 1
              /\ UNCHANGED response
    /\ UNCHANGED << req, local, gen, content_items, embeddings, openai_client, api_key, call, provider_log, process, txt >>

\* db.add(embedding); db.commit()
Commit(r) ==
    /\ pc[r] = "commit"
    /\ \E fault \in BOOLEAN :
         LET emb == NewEmbedding(r) IN
         IF fault
         THEN /\ Fail(r, HTTP_500_INTERNAL_SERVER_ERROR, SaveDetail(r),
                      OperationalError("commit"))
              /\ UNCHANGED << content_items, embeddings >>
         ELSE IF ~ EmbeddingInsertable(content_items \cup { session[r] }, embeddings, emb)
         THEN /\ Fail(r, HTTP_500_INTERNAL_SERVER_ERROR, SaveDetail(r), "IntegrityError")
              /\ UNCHANGED << content_items, embeddings >>
         ELSE /\ content_items' = CommitItems(content_items, session[r])
              /\ embeddings' = CommitEmbeddings(embeddings, emb)
              /\ session' = [session EXCEPT ![r] = NoItem]
              /\ pc' = [pc EXCEPT ![r] = "refresh"]
              /\ UNCHANGED response
    /\ UNCHANGED << req, local, gen, clock, openai_client, api_key, call, provider_log, process, txt >>

\* db.refresh(content_item) and the response
Refresh(r) ==
    /\ pc[r] = "refresh"
    /\ \E fault \in BOOLEAN :
         IF fault
         THEN Fail(r, HTTP_500_INTERNAL_SERVER_ERROR, SaveDetail(r),
                   OperationalError("refresh"))
         ELSE /\ pc' = [pc EXCEPT ![r] = "done"]
              /\ response' = [response EXCEPT ![r] =
                     Success(r, query_first(content_items, local[r].content_hash).created_at,
                             NoItem)]
              /\ UNCHANGED session
    /\ UNCHANGED << req, local, gen, content_items, embeddings, clock, openai_client,
                    api_key, call, provider_log, process, txt >>

\* ----------------------------------------------------------- specifications

Init ==
    /\ pc = [r \in Reqs |-> "idle"]
    /\ req = [r \in Reqs |-> NoRequest]
    /\ local = [r \in Reqs |-> NoLocal]
    /\ gen = [r \in Reqs |-> NoCall]
    /\ session = [r \in Reqs |-> NoItem]
    /\ response = [r \in Reqs |-> NoResponse]
    /\ content_items = {}
    /\ embeddings = {}
    /\ clock = 0
    /\ openai_client = [w \in Workers |-> "None"]
    /\ api_key \in BOOLEAN
    /\ call = NoCall
    /\ provider_log = <<>>
    /\ process = NoProcess
    /\ txt = NoTxt

Next ==
    \E r \in Reqs :
        \/ StartText(r)
        \/ StartFile(r)
        \/ ReadFile(r)
        \/ Lookup(r)
        \/ GetClient(r)
        \/ EmbedAttempt(r)
        \/ Flush(r)
        \/ Commit(r)
        \/ Refresh(r)

Spec == Init /\ [][Next]_vars

\* a direct call  generate_embedding(text, max_retries=n)
DirectTexts == { <<"a">>, <<"a", " ", "b">> }

DirectCalls ==
    { BeginEmbedding(t, EMBEDDING_MODEL, n) : t \in DirectTexts, n \in 0..MaxRetriesArg }

\* one provider call of the direct call, with what follows it
DirectAttempt ==
    /\ call.status = "running"
    /\ \E resp \in ProviderResponses :
         /\ call' = Attempt(call, resp)
         /\ provider_log' = Append(provider_log, resp)
    /\ UNCHANGED << pc, req, local, gen, session, response, content_items, embeddings,
                    clock, openai_client, api_key, process, txt >>

InitDirect ==
    /\ pc = [r \in Reqs |-> "idle"]
    /\ req = [r \in Reqs |-> NoRequest]
    /\ local = [r \in Reqs |-> NoLocal]
    /\ gen = [r \in Reqs |-> NoCall]
    /\ session = [r \in Reqs |-> NoItem]
    /\ response = [r \in Reqs |-> NoResponse]
    /\ content_items = {}
    /\ embeddings = {}
    /\ clock = 0
    /\ openai_client = [w \in Workers |-> "OpenAI"]
    /\ api_key = TRUE
    /\ call \in DirectCalls
    /\ provider_log = <<>>
    /\ process = NoProcess
    /\ txt = NoTxt

NextDirect == DirectAttempt

\* the steps of the handler of request r once the request has arrived
Step(r) ==
    \/ ReadFile(r)
    \/ Lookup(r)
    \/ GetClient(r)
    \/ EmbedAttempt(r)
    \/ Flush(r)
    \/ Commit(r)
    \/ Refresh(r)

\* every provider call and every store operation returns, and the event loop
\* resumes a handler that waits for its upload: a handler that can take its next
\* step takes it
LiveSpec == Spec /\ \A r \in Reqs : WF_vars(Step(r))

\* the specification of a direct call of generate_embedding
GenSpec == InitDirect /\ [][NextDirect]_vars

\* _get_client called by the threads of one process. The interpreter may switch
\* threads between any two of its steps: the test of the global, the test of the
\* key, the construction of the OpenAI object, the assignment to the global and
\* the read of the global for the return value.
OtherVars ==
    << pc, req, local, gen, session, response, content_items, embeddings, clock,
       openai_client, api_key, call, provider_log, txt >>

At(t, where) == process.thread[t].pc = where

Goto(t, where) == [process EXCEPT !.thread[t].pc = where]

\* if _openai_client is None
TestClient(t) ==
    /\ At(t, "idle")
    /\ process' = Goto(t, IF process.openai_client = 0 THEN "key" ELSE "return")
    /\ UNCHANGED OtherVars

\* if not OPENAI_API_KEY: raise ValueError
TestKey(t) ==
    /\ At(t, "key")
    /\ process' = Goto(t, IF api_key THEN "construct" ELSE "raised")
    /\ UNCHANGED OtherVars

\* OpenAI(api_key=OPENAI_API_KEY): a new object
Construct(t) ==
    /\ At(t, "construct")
    /\ process' = [Goto(t, "assign") EXCEPT !.objects = @ + 1,
                                            !.thread[t].new = process.objects + 1]
    /\ UNCHANGED OtherVars

\* _openai_client = <the new object>
Assign(t) ==
    /\ At(t, "assign")
    /\ process' = [Goto(t, "return") EXCEPT !.openai_client = process.thread[t].new]
    /\ UNCHANGED OtherVars

\* return _openai_client
Return(t) ==
    /\ At(t, "return")
    /\ process' = [Goto(t, "done") EXCEPT !.thread[t].client = process.openai_client]
    /\ UNCHANGED OtherVars

InitThreads ==
    /\ pc = [r \in Reqs |-> "idle"]
    /\ req = [r \in Reqs |-> NoRequest]
    /\ local = [r \in Reqs |-> NoLocal]
    /\ gen = [r \in Reqs |-> NoCall]
    /\ session = [r \in Reqs |-> NoItem]
    /\ response = [r \in Reqs |-> NoResponse]
    /\ content_items = {}
    /\ embeddings = {}
    /\ clock = 0
    /\ openai_client = [w \in Workers |-> "None"]
    /\ api_key \in BOOLEAN
    /\ call = NoCall
    /\ provider_log = <<>>
    /\ process = NoProcess
    /\ txt = NoTxt

NextThreads ==
    \E t \in Threads :
        \/ TestClient(t)
        \/ TestKey(t)
        \/ Construct(t)
        \/ Assign(t)
        \/ Return(t)

\* the specification of threads that use the client for the first time
ThreadSpec == InitThreads /\ [][NextThreads]_vars

\* ------------------------------------------------- plain-text extraction

\* the encodings the fallback loop adds, in its order
FallbackEncodings == << "utf-8", "utf-16", "latin-1", "cp1252", "ascii" >>

\* what chardet.detect may name: nothing, names of the fallback list, names that
\* differ from them in letter case, other names of the same codecs, a codec outside
\* the list and a name Python has no codec for
DetectedEncodings ==
    { "None", "utf-8", "ascii", "UTF-16", "Windows-1252", "ISO-8859-1", "Big5", "EUC-TW" }

\* the confidence of the detection in hundredths
Confidences == { 0, 70, 71, 100 }

\* str.lower() on the names of encodings
lower_name(enc) ==
    CASE enc = "UTF-16" -> "utf-16"
      [] enc = "Windows-1252" -> "windows-1252"
      [] enc = "ISO-8859-1" -> "iso-8859-1"
      [] enc = "Big5" -> "big5"
      [] enc = "EUC-TW" -> "euc-tw"
      [] OTHER -> enc

\* the codec Python looks up for a name: letter case is ignored, aliases name the
\* same codec, an unknown name raises LookupError ("none")
Codec(enc) ==
    CASE lower_name(enc) = "iso-8859-1" -> "latin-1"
      [] lower_name(enc) = "windows-1252" -> "cp1252"
      [] lower_name(enc) = "euc-tw" -> "none"
      [] OTHER -> lower_name(enc)

Codecs == { "utf-8", "utf-16", "latin-1", "cp1252", "ascii", "big5" }

\* the payloads, each given by the codecs that decode it: latin-1 decodes every
\* byte string, and bytes that are ASCII decode as utf-8, cp1252 and big5 too
FileContents ==
    { d \in SUBSET Codecs :
        /\ "latin-1" \in d
        /\ "ascii" \in d => { "utf-8", "cp1252", "big5" } \subseteq d }

\* the detection taken at exactly 0.7
ConfidentFromThreshold(detected_encoding, confidence) ==
    detected_encoding # "None" /\ confidence >= 70

\* if detected_encoding and confidence > 0.7
Confident(detected_encoding, confidence) ==
    detected_encoding # "None" /\ confidence > 70

\* enc.lower() not in [e.lower() for e in encodings_to_try]
NotListed(enc, encodings_to_try) ==
    \A k \in 1..Len(encodings_to_try) : lower_name(encodings_to_try[k]) # lower_name(enc)

\* for enc in [...]: encodings_to_try.append(enc) unless listed, from the k-th on
RECURSIVE AddFallbacks(_, _)
AddFallbacks(encodings_to_try, k) ==
    IF k > Len(FallbackEncodings) THEN encodings_to_try
    ELSE AddFallbacks(IF NotListed(FallbackEncodings[k], encodings_to_try)
                      THEN Append(encodings_to_try, FallbackEncodings[k])
                      ELSE encodings_to_try,
                      k + 1)

\* file_content.decode(encoding) succeeds
Decodes(decodable, encoding) == Codec(encoding) \in decodable

TxtOtherVars ==
    << pc, req, local, gen, session, response, content_items, embeddings, clock,
       openai_client, api_key, call, provider_log, process >>

\* extract_text_from_txt from the detection to the list of encodings to try
BuildEncodings ==
    /\ txt.status = "detected"
    /\ txt' = [txt EXCEPT
                 !.encodings_to_try =
                     AddFallbacks(IF Confident(txt.detected_encoding, txt.confidence)
                                  THEN << txt.detected_encoding >> ELSE << >>, 1),
                 !.status = "trying"]
    /\ UNCHANGED TxtOtherVars

\* one iteration of  for encoding in encodings_to_try, and the raise after the last
TryEncoding ==
    /\ txt.status = "trying"
    /\ LET encoding == txt.encodings_to_try[txt.tried + 1] IN
       txt' = IF Decodes(txt.decodable, encoding)
              THEN [txt EXCEPT !.tried = @ + 1, !.status = "returned",
                               !.result = encoding]
              ELSE IF txt.tried + 1 = Len(txt.encodings_to_try)
              THEN [txt EXCEPT !.tried = @ + 1, !.status = "ExtractionError"]
              ELSE [txt EXCEPT !.tried = @ + 1]
    /\ UNCHANGED TxtOtherVars

InitTxt ==
    /\ pc = [r \in Reqs |-> "idle"]
    /\ req = [r \in Reqs |-> NoRequest]
    /\ local = [r \in Reqs |-> NoLocal]
    /\ gen = [r \in Reqs |-> NoCall]
    /\ session = [r \in Reqs |-> NoItem]
    /\ response = [r \in Reqs |-> NoResponse]
    /\ content_items = {}
    /\ embeddings = {}
    /\ clock = 0
    /\ openai_client = [w \in Workers |-> "None"]
    /\ api_key = TRUE
    /\ call = NoCall
    /\ provider_log = <<>>
    /\ process = NoProcess
    /\ \E detected_encoding \in DetectedEncodings, confidence \in Confidences,
          decodable \in FileContents :
         /\ detected_encoding = "None" => confidence = 0
         /\ txt = [NoTxt EXCEPT !.detected_encoding = detected_encoding,
                                !.confidence = confidence,
                                !.decodable = decodable,
                                !.status = "detected"]

NextTxt == BuildEncodings \/ TryEncoding

\* the specification of a call of extract_text_from_txt
TxtSpec == InitTxt /\ [][NextTxt]_vars

\* ------------------------------------------------------------------ claims

ItemsOf(r) == { i \in content_items : i.id = r }
EmbeddingsOf(r) == { e \in embeddings : e.id = r \/ e.content_item_id = r }
StoreFault == { "OperationalError", "OperationalError in refresh" }

\* the handler of r got a vector: its lookup missed and its embedding call returned
Embedded(r) == local[r].embedding_vector # NoVector

\* C1: a request whose lookup missed and that finds, when it persists, the same
\* content stored by another request answers 201 with the identifier of that stored
\* item; the uniqueness violation never reaches the caller.
C1_RaceRecovered ==
    \A r \in Reqs : \A i \in content_items :
        ( /\ pc[r] = "done"
          /\ Embedded(r)
          /\ response[r].cause \notin StoreFault
          /\ i.content_hash = local[r].content_hash
          /\ i.id # r )
        => /\ response[r].status_code = HTTP_201_CREATED
           /\ response[r].capture_id = i.id

\* C2: the committed table never holds two content items with one content_hash nor
\* two embeddings of one item, and a request that inserts a hash already committed
\* fails with the constraint violation and leaves no row of its own.
C2_UniqueContentHash ==
    /\ \A i, j \in content_items : i.content_hash = j.content_hash => i = j
    /\ \A e, f \in embeddings : e.content_item_id = f.content_item_id => e = f
    /\ \A r \in Reqs :
         response[r].cause = "IntegrityError"
         => /\ \E i \in content_items :
                 i.content_hash = local[r].content_hash /\ i.id # r
            /\ ItemsOf(r) = {}
            /\ EmbeddingsOf(r) = {}

C2_Witness ==
    \E r \in Reqs :
        /\ response[r].cause = "IntegrityError"
        /\ \E i \in content_items : i.content_hash = local[r].content_hash

\* C3: in every committed state each content item has exactly one embedding that
\* references it and each embedding references exactly one content item.
C3_ItemEmbeddingPaired ==
    /\ \A i \in content_items :
         Cardinality({ e \in embeddings : e.content_item_id = i.id }) = 1
    /\ \A e \in embeddings :
         Cardinality({ i \in content_items : i.id = e.content_item_id }) = 1

C3_Witness ==
    /\ content_items # {}
    /\ embeddings # {}
    /\ \E r \in Reqs :
         /\ pc[r] = "done" /\ Embedded(r) /\ response[r].cause = "OperationalError"
         /\ clock > Cardinality({ q \in Reqs : pc[q] # "idle" }) + 1

\* C4: when a text capture of T has completed and a second text capture of the same
\* T then does its lookup (the store answering), the second ends at once with the
\* identifier and creation time the first returned, and the table holds exactly one
\* item whose content is the trimmed T.
C4_IdempotentDedup ==
    [][ \A r, q \in Reqs :
          ( /\ r # q
            /\ req[r].route = "text" /\ req[q].route = "text"
            /\ req[q].content = req[r].content
            /\ pc[r] = "done" /\ response[r].status_code = HTTP_201_CREATED
            /\ pc[q] = "lookup" /\ pc'[q] # "lookup"
            /\ response'[q].cause \notin StoreFault )
          => /\ pc'[q] = "done"
             /\ response'[q].status_code = HTTP_201_CREATED
             /\ response'[q].capture_id = response[r].capture_id
             /\ response'[q].created_at = response[r].created_at
             /\ Cardinality({ i \in content_items' :
                                i.content = strip(req[r].content) }) = 1
             /\ \A i \in content_items' :
                  i.content = strip(req[r].content) => i.id = response[r].capture_id
      ]_vars

C4_Witness ==
    \E r, q \in Reqs :
        /\ r < q
        /\ req[r].route = "text" /\ req[q].route = "text"
        /\ req[q].content = req[r].content
        /\ pc[r] = "done" /\ response[r].capture_id = r
        /\ pc[q] = "done" /\ response[q].capture_id = r
        /\ response[q].created_at = response[r].created_at

\* C5: a request whose lookup found an existing item made no provider call, holds no
\* vector, flushed nothing and committed no row.
C5_DuplicateShortCircuits ==
    \A r \in Reqs :
        local[r].existing_item # NoItem
        => /\ pc[r] = "done"
           /\ ~ local[r].provider_called
           /\ gen[r] = NoCall
           /\ ~ Embedded(r)
           /\ session[r] = NoItem
           /\ ItemsOf(r) = {}
           /\ EmbeddingsOf(r) = {}
           /\ local[r].existing_item \in content_items

C5_Witness ==
    \E r \in Reqs :
        /\ local[r].existing_item # NoItem
        /\ pc[r] = "done"
        /\ response[r].capture_id = local[r].existing_item.id
        /\ Cardinality(content_items) = 1
        /\ Cardinality(embeddings) = 1

\* C6 as claimed: a successful capture reports "created" when it persisted a new
\* item and "already exists" when its lookup found one.
C6_StatusDistinguishes ==
    \A r \in Reqs :
        response[r].status_code = HTTP_201_CREATED
        => response[r].status =
             IF local[r].existing_item = NoItem THEN "created" ELSE "already exists"

\* C6 as amended: every successful capture reports "completed", whether it persisted
\* a new item (and names that item) or found an existing one (and names it).
C6_StatusCompleted ==
    \A r \in Reqs :
        response[r].status_code = HTTP_201_CREATED
        => /\ response[r].status = "completed"
           /\ IF local[r].existing_item = NoItem
              THEN response[r].capture_id = r /\ ItemsOf(r) # {}
              ELSE response[r].capture_id = local[r].existing_item.id /\ ItemsOf(r) = {}

C6_Witness ==
    \E r, q \in Reqs :
        /\ response[r].status_code = HTTP_201_CREATED /\ local[r].existing_item = NoItem
        /\ response[q].status_code = HTTP_201_CREATED /\ local[q].existing_item # NoItem

\* C7: a request whose embedding call failed has ended with a failure, and neither
\* its session nor the committed tables hold a row of it.
C7_EmbeddingFailureWritesNothing ==
    \A r \in Reqs :
        response[r].detail = "Failed to generate embedding"
        => /\ pc[r] = "done"
           /\ response[r].status_code = HTTP_500_INTERNAL_SERVER_ERROR
           /\ response[r].capture_id = 0
           /\ session[r] = NoItem
           /\ ItemsOf(r) = {}
           /\ EmbeddingsOf(r) = {}
           /\ (query_first(content_items, local[r].content_hash) # NoItem
               => query_first(content_items, local[r].content_hash).id # r)

C7_Witness ==
    \E r \in Reqs :
        /\ response[r].detail = "Failed to generate embedding"
        /\ local[r].provider_called
        /\ query_first(content_items, local[r].content_hash) = NoItem

\* C8: a request that failed in flush, in the insert of the embedding or in commit
\* has no row left: its session is rolled back and the committed tables hold neither
\* an item nor an embedding of it.
C8_PersistFailureRollsBack ==
    \A r \in Reqs :
        ( /\ pc[r] = "done"
          /\ Embedded(r)
          /\ response[r].cause \in { "OperationalError", "IntegrityError" } )
        => /\ response[r].status_code = HTTP_500_INTERNAL_SERVER_ERROR
           /\ session[r] = NoItem
           /\ ItemsOf(r) = {}
           /\ EmbeddingsOf(r) = {}

C8_Witness ==
    \E r \in Reqs :
        /\ pc[r] = "done"
        /\ Embedded(r)
        /\ response[r].cause = "OperationalError"
        /\ clock > Cardinality({ q \in Reqs : pc[q] # "idle" })

\* a failure after which generate_embedding tries again while attempts remain
RetryableFailure(resp) ==
    \/ resp.kind \in { "RateLimitError", "APIConnectionError" }
    \/ resp.kind = "APIError" /\ resp.status_code \notin 400..499

\* C9: the provider is called once per attempt and at most max_retries times; when
\* every attempt failed with a retryable failure the call has made exactly
\* max_retries provider calls and raised EmbeddingError with the attempt count and
\* the last cause.
C9_RetryCeiling ==
    LET n == Len(provider_log) IN
    /\ call.calls = n
    /\ call.calls <= call.max_retries
    /\ call.status = "running" => call.attempt = n /\ n < call.max_retries
    /\ (call.status # "running" /\ n > 0) => call.attempt = n - 1
    /\ (\A i \in 1..n : RetryableFailure(provider_log[i]))
       => IF n < call.max_retries
          THEN call.status = "running"
          ELSE /\ call.status = "raised"
               /\ call.calls = call.max_retries
               /\ call.error.type = "EmbeddingError"
               /\ n > 0 => /\ call.error.attempts = n
                           /\ call.error.cause = provider_log[n].kind

C9_Witness ==
    /\ call.max_retries = MAX_RETRIES
    /\ call.status = "raised"
    /\ call.calls = MAX_RETRIES
    /\ \A i \in 1..Len(provider_log) : RetryableFailure(provider_log[i])

\* C10: generate_embedding returns only vectors of EMBEDDING_DIMENSIONS numbers; a
\* provider answer of another length is the last call of the call, which raised
\* EmbeddingError and returned nothing.
C10_DimensionMismatchFails ==
    LET n == Len(provider_log) IN
    /\ call.status = "returned"
       => /\ call.result.dims = EMBEDDING_DIMENSIONS
          /\ call.result.dims = provider_log[n].dims
    /\ \A i \in 1..n :
         (provider_log[i].kind = "ok" /\ provider_log[i].dims # EMBEDDING_DIMENSIONS)
         => /\ i = n
            /\ call.calls = i
            /\ call.status = "raised"
            /\ call.error.type = "EmbeddingError"
            /\ call.result = NoVector

C10_Witness ==
    LET n == Len(provider_log) IN
    /\ n = 2
    /\ provider_log[n].kind = "ok"
    /\ provider_log[n].dims # EMBEDDING_DIMENSIONS
    /\ call.status = "raised"

\* C11: a text capture whose content is empty or whitespace only is answered with
\* the validation error before the pipeline starts (no hash, no lookup, no
\* embedding call, no row flushed or committed), and no committed content item has
\* content that is empty once trimmed.
C11_BlankTextRejected ==
    /\ \A r \in Reqs :
         (pc[r] # "idle" /\ req[r].route = "text" /\ strip(req[r].content) = <<>>)
         => /\ pc[r] = "done"
            /\ response[r].status_code = HTTP_422_UNPROCESSABLE_ENTITY
            /\ response[r].detail = "Content cannot be empty or whitespace only"
            /\ local[r] = NoLocal
            /\ gen[r] = NoCall
            /\ session[r] = NoItem
            /\ ItemsOf(r) = {}
            /\ EmbeddingsOf(r) = {}
    /\ \A i \in content_items : strip(i.content) # <<>>

C11_Witness ==
    \E r, q \in Reqs :
        /\ req[r].route = "text"
        /\ req[r].content = << " ", "\t" >>
        /\ pc[r] = "done"
        /\ response[r].status_code = HTTP_422_UNPROCESSABLE_ENTITY
        /\ req[q].content = << " ", "a", "\n" >>
        /\ ItemsOf(q) # {}

\* file names whose suffix (the text after the last dot, letter case ignored; empty
\* without a dot) is none of .pdf, .docx, .txt, and file names whose suffix is one
UnsupportedNames == { << "e", ".", "e", "x", "e" >>, << "t", "x", "t" >> }
SupportedNames ==
    { << "n", ".", "T", "X", "T" >>, << "n", ".", "t", "x", "t" >>,
      << "n", ".", "p", "d", "f" >>, << "n", ".", "d", "o", "c", "x" >> }

\* C12: an upload whose file name suffix is not supported is answered with
\* unsupported-type before the payload is read, the extractor is called, the hash is
\* looked up, an embedding is requested or a row is written; an upload whose suffix
\* is supported in any letter case passes on to the read of its payload.
C12_UnsupportedSuffixRejected ==
    \A r \in Reqs :
        (pc[r] # "idle" /\ req[r].route = "file")
        => /\ req[r].filename \in UnsupportedNames \cup SupportedNames
           /\ req[r].filename \in UnsupportedNames
              => /\ pc[r] = "done"
                 /\ response[r].status_code = HTTP_415_UNSUPPORTED_MEDIA_TYPE
                 /\ response[r].detail = "Unsupported file type"
                 /\ local[r] = [NoLocal EXCEPT !.ext = local[r].ext]
                 /\ local[r].ext \notin SUPPORTED_EXTENSIONS
                 /\ gen[r] = NoCall
                 /\ session[r] = NoItem
                 /\ ItemsOf(r) = {}
                 /\ EmbeddingsOf(r) = {}
           /\ req[r].filename \in SupportedNames
              => /\ local[r].ext \in SUPPORTED_EXTENSIONS
                 /\ pc[r] = "read" \/ local[r].bytes_read

C12_Witness ==
    \E r, q \in Reqs :
        /\ req[r].route = "file"
        /\ req[r].filename = << "t", "x", "t" >>
        /\ pc[r] = "done"
        /\ response[r].status_code = HTTP_415_UNSUPPORTED_MEDIA_TYPE
        /\ req[q].filename = << "n", ".", "T", "X", "T" >>
        /\ ItemsOf(q) # {}

\* C13: an upload of a supported kind whose payload is longer than 10 * 1024 * 1024
\* bytes is answered with too-large and neither extracted, hashed, looked up,
\* embedded nor written; a payload of exactly that many bytes is not refused for its
\* size and reaches the extractor.
C13_OversizeRejected ==
    \A r \in Reqs :
        (req[r].route = "file" /\ pc[r] \notin { "idle", "read" }
                               /\ req[r].filename \in SupportedNames)
        => /\ local[r].bytes_read
           /\ (req[r].size > 10 * 1024 * 1024)
              <=> (response[r].status_code = HTTP_413_REQUEST_ENTITY_TOO_LARGE)
           /\ (req[r].size > 10 * 1024 * 1024)
              => /\ pc[r] = "done"
                 /\ response[r].detail = "File too large"
                 /\ local[r] = [NoLocal EXCEPT !.ext = local[r].ext, !.bytes_read = TRUE]
                 /\ gen[r] = NoCall
                 /\ session[r] = NoItem
                 /\ ItemsOf(r) = {}
                 /\ EmbeddingsOf(r) = {}
           /\ (req[r].size <= 10 * 1024 * 1024) => local[r].extract_called

C13_Witness ==
    \E r, q \in Reqs :
        /\ req[r].route = "file"
        /\ req[r].size = 10 * 1024 * 1024 + 1
        /\ response[r].status_code = HTTP_413_REQUEST_ENTITY_TOO_LARGE
        /\ req[q].route = "file"
        /\ req[q].size = 10 * 1024 * 1024
        /\ ItemsOf(q) # {}

\* C14: an upload whose extracted text is empty or whitespace only is answered with
\* the client fault "Extracted text is empty", which is not the answer given when the
\* extractor fails; it is neither hashed, looked up, embedded nor stored.
C14_EmptyExtractionRejected ==
    \A r \in Reqs :
        /\ ( /\ req[r].route = "file"
             /\ local[r].extract_called
             /\ req[r].parse_ok
             /\ strip(req[r].parsed) = <<>> )
           => /\ pc[r] = "done"
              /\ response[r].status_code = HTTP_422_UNPROCESSABLE_ENTITY
              /\ response[r].detail = "Extracted text is empty"
              /\ response[r].cause # "ExtractionError"
              /\ local[r] = [NoLocal EXCEPT !.ext = local[r].ext, !.bytes_read = TRUE,
                                            !.extract_called = TRUE]
              /\ gen[r] = NoCall
              /\ session[r] = NoItem
              /\ ItemsOf(r) = {}
              /\ EmbeddingsOf(r) = {}
        /\ (local[r].extract_called /\ ~ req[r].parse_ok)
           => /\ response[r].detail = "Failed to extract text"
              /\ response[r].cause = "ExtractionError"
        /\ response[r].detail = "Extracted text is empty"
           => req[r].parse_ok /\ strip(req[r].parsed) = <<>>

C14_Witness ==
    \E r, q \in Reqs :
        /\ req[r].route = "file"
        /\ req[r].parsed = << " ", "\n" >>
        /\ response[r].detail = "Extracted text is empty"
        /\ response[q].detail = "Failed to extract text"

\* the requests whose transaction committed
Committed(r) ==
    \/ pc[r] = "refresh"
    \/ /\ pc[r] = "done"
       /\ local[r].existing_item = NoItem
       /\ \/ response[r].status_code = HTTP_201_CREATED
          \/ response[r].cause = "OperationalError in refresh"

\* C15: a capture that succeeds without a lookup hit has added exactly one content
\* item, holding its trimmed text and hash, and exactly one embedding of that item,
\* holding the vector it got and the active model identifier, and returns the
\* identifier and creation time of that item; the store holds nothing but one such
\* pair for each request that committed.
C15_OneItemOneEmbedding ==
    /\ \A r \in Reqs :
         ( /\ pc[r] = "done"
           /\ response[r].status_code = HTTP_201_CREATED
           /\ local[r].existing_item = NoItem )
         => \E i \in content_items : \E e \in embeddings :
              /\ ItemsOf(r) = { i }
              /\ { f \in embeddings : f.content_item_id = i.id \/ f.id = r } = { e }
              /\ i.content = local[r].content
              /\ i.content_hash = local[r].content_hash
              /\ i.source = (IF req[r].route = "text" THEN req[r].source ELSE "file_upload")
              /\ e.embedding_vector = local[r].embedding_vector
              /\ e.embedding_vector.dims = EMBEDDING_DIMENSIONS
              /\ e.embedding_vector.input = i.content
              /\ e.model_version = EMBEDDING_MODEL
              /\ response[r].capture_id = i.id
              /\ response[r].created_at = i.created_at
    /\ \A r \in Reqs : Cardinality(ItemsOf(r)) = (IF Committed(r) THEN 1 ELSE 0)
    /\ \A r \in Reqs : Cardinality(EmbeddingsOf(r)) = (IF Committed(r) THEN 1 ELSE 0)
    /\ content_items = UNION { ItemsOf(r) : r \in Reqs }
    /\ embeddings = UNION { EmbeddingsOf(r) : r \in Reqs }

C15_Witness ==
    \E r, q \in Reqs :
        /\ r # q
        /\ req[r].route = "text"
        /\ req[q].route = "file"
        /\ response[r].status_code = HTTP_201_CREATED
        /\ response[q].status_code = HTTP_201_CREATED
        /\ local[r].existing_item = NoItem
        /\ local[q].existing_item = NoItem
        /\ Cardinality(content_items) = 2
        /\ Cardinality(embeddings) = 2

\* the handler's call of generate_embedding raised ValueError: no credentials
ConfigurationFault(r) ==
    /\ pc[r] = "done"
    /\ response[r].status_code = HTTP_500_INTERNAL_SERVER_ERROR
    /\ response[r].cause = "ValueError"

\* C16: every failed capture is answered with the one outcome of its class: an
\* embedding failure with "Failed to generate embedding", a store failure with
\* "Failed to save ...", an extractor failure with "Failed to extract text", and
\* missing credentials with an answer that is neither the embedding nor the storage
\* failure.
C16_FailuresClassified ==
    \A r \in Reqs :
        (pc[r] = "done" /\ response[r].status_code # HTTP_201_CREATED)
        => /\ response[r].cause = "EmbeddingError"
              <=> response[r].detail = "Failed to generate embedding"
           /\ response[r].cause \in StoreFault \cup { "IntegrityError" }
              <=> response[r].detail = SaveDetail(r)
           /\ response[r].cause = "ExtractionError"
              <=> response[r].detail = "Failed to extract text"
           /\ ConfigurationFault(r)
              => response[r].detail \notin { "Failed to generate embedding", SaveDetail(r) }

\* the handler of r went past its lookup, which missed, and called generate_embedding
CalledGenerate(r) ==
    /\ pc[r] = "done"
    /\ local[r].content_hash # 0
    /\ local[r].existing_item = NoItem
    /\ response[r].cause \notin StoreFault

\* C17: without credentials every call of generate_embedding raises ValueError, which
\* is no EmbeddingError, before a frame of attempts exists: no provider call, no
\* retry, no wait; no client is ever cached in any process, so each later call ends
\* the same way, and no request writes a row.
C17_MissingCredentialsFailFast ==
    ~ api_key
    => /\ \A w \in Workers : openai_client[w] = "None"
       /\ \A r \in Reqs :
            /\ pc[r] \notin { "embed", "flush", "commit", "refresh" }
            /\ gen[r] = NoCall
            /\ gen[r].calls = 0 /\ gen[r].sleeps = <<>>
            /\ ~ local[r].provider_called
            /\ local[r].embedding_vector = NoVector
            /\ session[r] = NoItem
            /\ CalledGenerate(r)
               => /\ response[r].cause = "ValueError"
                  /\ response[r].cause # "EmbeddingError"
                  /\ response[r].status_code = HTTP_500_INTERNAL_SERVER_ERROR
       /\ content_items = {}
       /\ embeddings = {}

C17_Witness ==
    /\ ~ api_key
    /\ \E r, q \in Reqs :
        /\ r # q
        /\ req[r].worker = req[q].worker
        /\ req[r].route = "text"
        /\ req[q].route = "file"
        /\ CalledGenerate(r)
        /\ CalledGenerate(q)
        /\ response[q].cause = "ValueError"

\* C18: no step of any request changes or removes a committed content item or
\* embedding: every row of either table is, with all its fields, a row of the table
\* after the step, so the tables only grow.
C18_RowsImmutable ==
    [][ /\ \A i \in content_items : \E j \in content_items' : j.id = i.id /\ j = i
        /\ \A e \in embeddings : \E f \in embeddings' : f.id = e.id /\ f = e
        /\ Cardinality(content_items') >= Cardinality(content_items)
        /\ Cardinality(embeddings') >= Cardinality(embeddings) ]_vars

C18_Witness ==
    \E r, q \in Reqs : \E i, j \in content_items :
        /\ r # q
        /\ i.id = r
        /\ j.id = q
        /\ i.created_at < j.created_at
        /\ response[r].status_code = HTTP_201_CREATED
        /\ response[q].status_code = HTTP_201_CREATED
        /\ \E e \in embeddings : e.content_item_id = r

\* the provider call did not yield a vector the call returns
FailedAttempt(resp) == ~ (resp.kind = "ok" /\ resp.dims = EMBEDDING_DIMENSIONS)

\* a rate-limit signal, a connectivity failure, or a provider error whose status is
\* a server fault or absent
ServerFaultOrAbsent(resp) ==
    \/ resp.kind \in { "RateLimitError", "APIConnectionError" }
    \/ resp.kind = "APIError" /\ (resp.status_code = NoStatus \/ resp.status_code >= 500)

\* the i-th provider call failed: another attempt follows exactly if attempts remain
\* and the failure is of the retried kind; otherwise the call ended there with
\* EmbeddingError, without a further provider call and without a wait
FollowedIff(i, retried) ==
    LET n == Len(provider_log) IN
    /\ (i < n \/ call.status = "running") <=> (i < call.max_retries /\ retried)
    /\ ~ retried
       => /\ i = n
          /\ call.status = "raised"
          /\ call.error.type = "EmbeddingError"
          /\ call.calls = i
          /\ Len(call.sleeps) = i - 1

\* C19 as stated: a failed attempt is followed by another attempt if and only if
\* attempts remain and the failure is a rate-limit signal, a connectivity failure or
\* a provider error with a server-fault or absent status; every other failure ends
\* the call at once with EmbeddingError, with no further call and no wait.
C19_RetryIffServerFault ==
    \A i \in 1..Len(provider_log) :
        FailedAttempt(provider_log[i])
        => FollowedIff(i, ServerFaultOrAbsent(provider_log[i]))

\* C19: a failed attempt is followed by another attempt if and only if attempts
\* remain and the failure is a rate-limit signal, a connectivity failure or a
\* provider error whose status is absent or outside 400..499; a provider error with
\* a status in 400..499 and any other failure end the call at once with
\* EmbeddingError, with no further call and no wait.
C19_RetryUnlessClientFault ==
    \A i \in 1..Len(provider_log) :
        FailedAttempt(provider_log[i])
        => FollowedIff(i, RetryableFailure(provider_log[i]))

C19_Witness ==
    /\ Len(provider_log) = 3
    /\ call.max_retries = MaxRetriesArg
    /\ provider_log[1].kind = "APIError" /\ provider_log[1].status_code = 500
    /\ provider_log[2].kind = "APIError" /\ provider_log[2].status_code = 399
    /\ provider_log[3].kind = "APIError" /\ provider_log[3].status_code = 499
    /\ call.status = "raised"
    /\ Len(call.sleeps) = 2

\* C20: the call has slept once after each attempt that was followed by another and
\* not after its last attempt; the k-th wait follows the k-th failed retryable
\* attempt and lasts INITIAL_RETRY_DELAY * 2^(k-1) seconds, the first one 1 s,
\* whichever retryable failures occurred.
C20_BackoffDoubles ==
    LET n == Len(provider_log)
        waits == Len(call.sleeps)
    IN  /\ waits = (IF call.status = "running" THEN n ELSE IF n = 0 THEN 0 ELSE n - 1)
        /\ \A k \in 1..waits :
             /\ call.sleeps[k] = INITIAL_RETRY_DELAY * 2 ^ (k - 1)
             /\ RetryableFailure(provider_log[k])
        /\ waits >= 1 => call.sleeps[1] = 1
        /\ call.retry_delay = INITIAL_RETRY_DELAY * 2 ^ waits

C20_Witness ==
    /\ call.max_retries = 4
    /\ Len(provider_log) = 4
    /\ call.status = "raised"
    /\ provider_log[1].kind = "RateLimitError"
    /\ provider_log[2].kind = "APIConnectionError"
    /\ provider_log[3].kind = "APIError"
    /\ RetryableFailure(provider_log[4])
    /\ call.sleeps = << 1, 2, 4 >>

\* C21: a call of generate_embedding in a capture that has failed k times, each time
\* with a failure that was retried, has made k provider calls and k waits with
\* k < max_retries; when the next provider call yields a vector of the expected
\* length the call returns that vector, so after k + 1 calls and k waits; a capture
\* that holds a vector never ends with an embedding failure, and when it succeeds
\* the embedding it stored holds that vector and the active model identifier.
C21_RetryThenSucceed ==
    [][ \A r \in Reqs :
          /\ (pc[r] = "embed" /\ pc'[r] = "embed" /\ gen'[r] # gen[r])
             => /\ gen'[r].calls = gen[r].calls + 1
                /\ Len(gen'[r].sleeps) = Len(gen[r].sleeps) + 1
                /\ gen'[r].calls < gen'[r].max_retries
          /\ (pc[r] = "embed" /\ pc'[r] = "flush")
             => /\ gen[r].status = "running"
                /\ gen[r].max_retries = MAX_RETRIES
                /\ gen[r].calls < gen[r].max_retries
                /\ Len(gen[r].sleeps) = gen[r].calls
                /\ gen[r].attempt = gen[r].calls
                /\ local'[r].embedding_vector =
                       [dims |-> EMBEDDING_DIMENSIONS, input |-> local[r].content,
                        model |-> EMBEDDING_MODEL]
          /\ (pc'[r] = "done" /\ local'[r].embedding_vector # NoVector)
             => /\ response'[r].cause # "EmbeddingError"
                /\ \/ response'[r].cause \in StoreFault \cup { "IntegrityError" }
                   \/ /\ response'[r].status_code = HTTP_201_CREATED
                      /\ \E e \in embeddings' :
                           /\ e.content_item_id = response'[r].capture_id
                           /\ e.embedding_vector = local'[r].embedding_vector
                           /\ e.model_version = EMBEDDING_MODEL ]_vars

C21_Witness ==
    \E r, q \in Reqs :
        /\ r # q
        /\ pc[q] = "embed"
        /\ gen[q].calls = 2
        /\ gen[q].sleeps = << 1, 2 >>
        /\ gen[q].max_retries = 3
        /\ pc[r] = "done"
        /\ local[r].embedding_vector # NoVector
        /\ response[r].status_code = HTTP_201_CREATED
        /\ \E e \in embeddings :
             e.content_item_id = r /\ e.model_version = EMBEDDING_MODEL

\* C22: whatever the interleaving of the threads of a process that use the client
\* for the first time, at most one OpenAI object is ever constructed, and every
\* call of _get_client returns that one object, which is the process's client.
C22_SingleClient ==
    /\ process.objects <= 1
    /\ \A t \in Threads :
         At(t, "done")
         => /\ process.thread[t].client = process.openai_client
            /\ \A u \in Threads :
                 At(u, "done") => process.thread[u].client = process.thread[t].client

\* the text a request captured, before trimming: the content of the body on the text
\* path, what the extractor returned on the file path
CapturedText(r) == IF req[r].route = "text" THEN req[r].content ELSE req[r].parsed

\* C23: every committed content item holds the trimmed text its request captured
\* and the SHA-256 of exactly that stored text, which differs from the digest of the
\* untrimmed text whenever trimming removed something.
C23_HashOfStoredText ==
    \A i \in content_items :
        /\ i.id \in Reqs
        /\ i.content = strip(CapturedText(i.id))
        /\ i.content_hash = sha256(i.content)
        /\ CapturedText(i.id) # i.content => i.content_hash # sha256(CapturedText(i.id))

C23_Witness ==
    \E i, j \in content_items :
        /\ req[i.id].route = "text"
        /\ req[i.id].content = << " ", "a", "\n" >>
        /\ i.content = << "a" >>
        /\ req[j.id].route = "file"
        /\ j.content_hash = sha256(j.content)

\* C24: every capture request that has arrived ends: it leaves extraction, the
\* embedding call and the persist steps and reaches its response, be it the
\* duplicate found, the item persisted or a failure, provided every provider call and
\* every store operation returns.
C24_Terminates ==
    \A r \in Reqs : (pc[r] # "idle") ~> (pc[r] = "done")

C24_Witness ==
    \E r, q \in Reqs :
        /\ r # q
        /\ pc[r] = "done"
        /\ pc[q] = "done"
        /\ req[q].route = "file"
        /\ local[r].existing_item # NoItem
        /\ response[q].status_code = HTTP_201_CREATED
        /\ local[q].existing_item = NoItem

\* C25: whenever capture_file has called extract_text, the file name's suffix is a
\* supported one and the payload is at most 10 * 1024 * 1024 bytes long, and the
\* call did not end with extract_text's own unsupported-kind error.
C25_ExtractorAfterChecks ==
    \A r \in Reqs :
        /\ local[r].extract_called
           => /\ req[r].route = "file"
              /\ req[r].filename \in SupportedNames
              /\ local[r].ext \in { << ".", "p", "d", "f" >>, << ".", "d", "o", "c", "x" >>,
                                    << ".", "t", "x", "t" >> }
              /\ req[r].size <= 10 * 1024 * 1024
              /\ local[r].bytes_read
              /\ extract_text(req[r].filename, req[r]).kind # "ValueError"
        /\ response[r].cause = "ValueError"
           => response[r].status_code # HTTP_415_UNSUPPORTED_MEDIA_TYPE

C25_Witness ==
    \E r, q \in Reqs :
        /\ local[r].extract_called
        /\ req[r].size = 10 * 1024 * 1024
        /\ req[r].filename = << "n", ".", "p", "d", "f" >>
        /\ pc[r] = "done"
        /\ req[q].size = 10 * 1024 * 1024 + 1
        /\ pc[q] = "done"
        /\ ~ local[q].extract_called

\* the source and metadata a request's handler writes into its content item
SourceOf(r) == IF req[r].route = "text" THEN req[r].source ELSE "file_upload"
MetadataOf(r) == IF req[r].route = "text" THEN MetaOf(req[r].metadata) ELSE "file_info"

\* C26: when a capture, text or file, does its lookup (the store answering) while an
\* item is stored whose content is the capture's trimmed text, it ends at once with
\* that item's identifier and creation time, whatever its own route, source,
\* metadata, file name and surrounding whitespace; the tables stay as they are, the
\* item holding the source and metadata of the request that stored it.
C26_DedupByTrimmedText ==
    [][ \A q \in Reqs : \A i \in content_items :
          ( /\ pc[q] = "lookup" /\ pc'[q] # "lookup"
            /\ response'[q].cause \notin StoreFault
            /\ i.content = strip(CapturedText(q)) )
          => /\ pc'[q] = "done"
             /\ response'[q].status_code = HTTP_201_CREATED
             /\ response'[q].capture_id = i.id
             /\ response'[q].created_at = i.created_at
             /\ i.id # q
             /\ i \in content_items'
             /\ i.source = SourceOf(i.id)
             /\ i.meta = MetadataOf(i.id)
             /\ content_items' = content_items
             /\ embeddings' = embeddings
      ]_vars

C26_Witness ==
    \E r, q \in Reqs : \E i \in content_items :
        /\ req[r].route = "text"
        /\ req[r].content = << " ", "a", "\n" >>
        /\ req[q].route = "file"
        /\ req[q].parsed = << "a", "\n" >>
        /\ i.id = r
        /\ i.source = "browser_extension"
        /\ SourceOf(q) # i.source
        /\ MetadataOf(q) # i.meta
        /\ pc[q] = "done"
        /\ local[q].existing_item = i
        /\ response[q].capture_id = r

\* the detected encoding, if it is tried first
DetectedFirst ==
    IF txt.detected_encoding # "None" /\ txt.confidence > 70
    THEN << txt.detected_encoding >> ELSE << >>

\* the fallback encoding has the name of the detected one but for letter case
SameName(enc) ==
    /\ DetectedFirst # << >>
    /\ << txt.detected_encoding, enc >> \in
         { << "utf-8", "utf-8" >>, << "ascii", "ascii" >>, << "UTF-16", "utf-16" >> }

KeptFallback(enc) == ~ SameName(enc)

\* the order the encodings are to be tried in
ExpectedOrder ==
    DetectedFirst
    \o SelectSeq(<< "utf-8", "utf-16", "latin-1", "cp1252", "ascii" >>, KeptFallback)

\* C27: the encodings are tried in this order: the detected encoding first exactly
\* when one was detected with confidence above 0.7, then utf-8, utf-16, latin-1,
\* cp1252, ascii without the one whose name is, but for letter case, that of the
\* detected one already listed; the result is the decode by the first encoding of
\* that order that decodes the bytes, and ExtractionError is raised only when none
\* of them does.
C27_EncodingOrder ==
    /\ txt.status \in { "trying", "returned", "ExtractionError" }
       => /\ txt.encodings_to_try = ExpectedOrder
          /\ txt.tried <= Len(ExpectedOrder)
    /\ txt.status = "trying"
       => \A k \in 1..txt.tried : ~ Decodes(txt.decodable, ExpectedOrder[k])
    /\ txt.status = "returned"
       => /\ txt.tried >= 1
          /\ txt.result = ExpectedOrder[txt.tried]
          /\ Decodes(txt.decodable, ExpectedOrder[txt.tried])
          /\ \A k \in 1..(txt.tried - 1) : ~ Decodes(txt.decodable, ExpectedOrder[k])
    /\ txt.status = "ExtractionError"
       => \A k \in 1..Len(ExpectedOrder) : ~ Decodes(txt.decodable, ExpectedOrder[k])

C27_Witness ==
    /\ txt.detected_encoding = "UTF-16"
    /\ txt.confidence = 71
    /\ txt.encodings_to_try = << "UTF-16", "utf-8", "latin-1", "cp1252", "ascii" >>
    /\ txt.status = "returned"
    /\ txt.tried = 3
    /\ txt.result = "latin-1"

=============================================================================
